---- MODULE Spec2Model ----
(***************************************************************************)
(* The trains / planes / history CRUD server: main's startup sequence, the *)
(* CORS middleware, the gin route table, the nine handlers and the three   *)
(* PostgreSQL tables they act on.  Every handler issues one SQL statement, *)
(* which the database executes atomically; two requests can be in flight   *)
(* at once (one per worker).  The database driver can fail any call.       *)
(***************************************************************************)
EXTENDS Integers, Sequences, FiniteSets, TLC

\* ------------------------------------------------------------------ bounds
MaxId == 2
MaxRequests == 2

Workers == {"w1", "w2"}
\* The order a free worker is picked in.
Before(v, w) == v = "w1" /\ w = "w2"

\* ------------------------------------------------------- program constants
\* VARCHAR(100)
VarcharLimit == 100

Resources == {"trains", "planes", "history"}

\* The struct tags of Train, Plane and History.
IdKey(res) == CASE res = "trains" -> "train_id" [] res = "planes" -> "plane_id" [] OTHER -> "history_id"
NameKey(res) == CASE res = "trains" -> "train_name" [] res = "planes" -> "plane_name" [] OTHER -> "history_name"
PriceKey(res) == CASE res = "trains" -> "train_price" [] res = "planes" -> "plane_price" [] OTHER -> "history_price"

\* The columns the CREATE TABLE statements declare.
Columns(res) == {IdKey(res), NameKey(res), PriceKey(res)}

\* The column each delete handler names in its WHERE clause.
DeleteColumn(res) == CASE res = "trains" -> "train_id" [] res = "planes" -> "plane_id" [] OTHER -> "history"

\* ------------------------------------------------------------ input values
LongName == "L101"
NameLen(s) == CASE s = "" -> 0 [] s = "Express" -> 7 [] s = LongName -> VarcharLimit + 1 [] OTHER -> 1

\* An identifier a client may put in an insert body; the sequences of the
\* model never reach it.
ClientId == MaxId + 5

JStr(s) == [t |-> "string", s |-> s, n |-> 0]
JNum(n) == [t |-> "number", s |-> "", n |-> n]

\* A request body: malformed text, or a JSON object (a function from keys to
\* JSON values).
Malformed == [wf |-> FALSE, obj |-> <<>>]
Obj(o) == [wf |-> TRUE, obj |-> o]
NoBody == Malformed

Bodies(res) ==
    { Malformed,
      Obj((NameKey(res) :> JStr("Express")) @@ (PriceKey(res) :> JNum(50))),
      Obj((PriceKey(res) :> JNum(50))),
      Obj((NameKey(res) :> JStr("Express"))),
      Obj((IdKey(res) :> JNum(ClientId)) @@ (NameKey(res) :> JStr("Express")) @@ (PriceKey(res) :> JNum(50))),
      Obj((NameKey(res) :> JStr(LongName)) @@ (PriceKey(res) :> JNum(50))),
      Obj((NameKey(res) :> JStr("Express")) @@ (PriceKey(res) :> JNum(0 - 1))) }

\* The text of a path parameter and the integer PostgreSQL reads from it.
DigitText == <<"1", "2", "3", "4", "5", "6", "7", "8", "9">>
NotInt == 0 - 1
Atoi(s) ==
    IF \E i \in 1..9 : DigitText[i] = s
    THEN CHOOSE i \in 1..9 : DigitText[i] = s
    ELSE IF s = "999" THEN 999 ELSE NotInt

Params == {DigitText[i] : i \in 1..MaxId} \cup {"999", "abc"}

Requests ==
    {[method |-> "GET", path |-> p, body |-> NoBody] :
        p \in {<<>>, <<"nope">>} \cup {<<r>> : r \in Resources}}
    \cup UNION {{[method |-> "POST", path |-> <<r, "add">>, body |-> b] : b \in Bodies(r)} :
        r \in Resources}
    \cup {[method |-> "DELETE", path |-> <<r, p>>, body |-> NoBody] :
        r \in Resources, p \in Params}
    \cup {[method |-> "OPTIONS", path |-> p, body |-> NoBody] :
        p \in {<<"trains">>, <<"nope">>}}

VARIABLES pc, db, ctx, nreq, created, attempts, startDb, startReq, acked

vars == <<pc, db, ctx, nreq, created, attempts, startDb, startReq, acked>>

\* ---------------------------------------------------------------- storage
\* A table: whether it exists, its rows, and the last value its SERIAL
\* sequence handed out.
NoTable == [exists |-> FALSE, rows |-> {}, last |-> 0]
EmptyTable == [exists |-> TRUE, rows |-> {}, last |-> 0]

Ids(t) == {r.id : r \in t.rows}

\* Faulty variant: CREATE TABLE after a drop, an existing table is emptied.
CreateTableAfterDrop(t) == EmptyTable

\* CREATE TABLE IF NOT EXISTS: an existing table is left as it is.
CreateTableIfNotExists(t) == IF t.exists THEN t ELSE EmptyTable

\* db.Exec of a create statement: [err, t].
ExecCreate(t, fault) ==
    IF fault THEN [err |-> TRUE, t |-> t]
    ELSE [err |-> FALSE, t |-> CreateTableIfNotExists(t)]

createTrainsTable(d, fault) == ExecCreate(d["trains"], fault)
createPlanesTable(d, fault) == ExecCreate(d["planes"], fault)
createHistoryTable(d, fault) == ExecCreate(d["history"], fault)

\* Faulty variant: the INSERT also names the identifier column and passes the
\* struct's ID when the body gave one.
InsertedIdFromBody(t, rec) == IF rec.ID # 0 THEN rec.ID ELSE t.last + 1

\* The identifier of the row an INSERT stores: the statements name only the
\* name and price columns, so the SERIAL default (nextval) supplies it.
InsertedId(t, rec) == t.last + 1

\* INSERT INTO <table> (<name>, <price>) VALUES ($1, $2): [err, t].
\* A failed statement stores nothing; the sequence value it drew (if it got
\* that far) is not given back.
InsertRow(t, rec, fault, drew) ==
    LET id == InsertedId(t, rec)
        bad == \/ fault
               \/ ~t.exists
               \/ NameLen(rec.Name) > VarcharLimit
               \/ id \in Ids(t)
    IN  IF bad
        THEN [err |-> TRUE, t |-> [t EXCEPT !.last = IF drew THEN t.last + 1 ELSE t.last]]
        ELSE [err |-> FALSE,
              t |-> [t EXCEPT !.last = t.last + 1,
                              !.rows = t.rows \cup {[id |-> id, name |-> rec.Name, price |-> rec.Price]}]]

\* DELETE FROM <table> WHERE <col> = $1 with the path parameter as text.
\* The identifier column compares with the parameter read as an integer;
\* a parameter that is no integer is an error.  A name that is no column of
\* the table (history) is taken as the whole row, a composite value no text
\* parameter is accepted for: the statement fails whatever the parameter.
DeleteWhere(t, res, col, param, fault) ==
    IF fault \/ ~t.exists \/ col # IdKey(res) \/ Atoi(param) = NotInt
    THEN [err |-> TRUE, t |-> t]
    ELSE [err |-> FALSE, t |-> [t EXCEPT !.rows = {r \in t.rows : r.id # Atoi(param)}]]

\* The orders SELECT * may return the rows in.
Orders(S) ==
    {s \in [1..Cardinality(S) -> S] : \A i, j \in 1..Cardinality(S) : s[i] = s[j] => i = j}

\* The struct a scanned row becomes.
ScanRow(r) == [ID |-> r.id, Name |-> r.name, Price |-> r.price]

\* Faulty variant: rows.Next is called once before the loop, so the first row is
\* never scanned.
ListOutcomesSkipFirst(t) ==
    IF ~t.exists THEN {[dberr |-> "query", list |-> <<>>]}
    ELSE {[dberr |-> "query", list |-> <<>>]}
         \cup UNION { LET n == Len(o)
                          l == [i \in 1..n |-> ScanRow(o[i])]
                      IN  {[dberr |-> "none", list |-> SubSeq(l, 2, n)]}
                    : o \in Orders(t.rows) }

\* db.Query, then the rows.Next / rows.Scan loop: the error the handler sees
\* ("none", "query", "scan") or does not see ("next": rows.Next returned false
\* on an error and rows.Err is never read), and the slice built so far.
ListOutcomes(t) ==
    IF ~t.exists THEN {[dberr |-> "query", list |-> <<>>]}
    ELSE {[dberr |-> "query", list |-> <<>>]}
         \cup UNION { LET n == Len(o)
                          l == [i \in 1..n |-> ScanRow(o[i])]
                      IN  {[dberr |-> "none", list |-> l]}
                          \cup {[dberr |-> "scan", list |-> SubSeq(l, 1, k - 1)] : k \in 1..n}
                          \cup {[dberr |-> "next", list |-> SubSeq(l, 1, k)] : k \in 0..n}
                    : o \in Orders(t.rows) }

\* ------------------------------------------------------------- transcoder
\* encoding/json into a string field: absent leaves "", a non-string fails.
DecodeString(obj, key) ==
    IF key \notin DOMAIN obj THEN [err |-> FALSE, v |-> ""]
    ELSE IF obj[key].t = "string" THEN [err |-> FALSE, v |-> obj[key].s]
    ELSE [err |-> TRUE, v |-> ""]

\* encoding/json into a uint field: absent leaves 0, a negative number or a
\* non-number fails.
DecodeUint(obj, key) ==
    IF key \notin DOMAIN obj THEN [err |-> FALSE, v |-> 0]
    ELSE IF obj[key].t = "number" /\ obj[key].n >= 0 THEN [err |-> FALSE, v |-> obj[key].n]
    ELSE [err |-> TRUE, v |-> 0]

ZeroRec == [ID |-> 0, Name |-> "", Price |-> 0]

\* Faulty variant: the decode error is dropped and the zero struct used.
BindJSONIgnoringError(res, body) ==
    IF ~body.wf THEN [err |-> FALSE, rec |-> ZeroRec]
    ELSE LET i == DecodeUint(body.obj, IdKey(res))
             n == DecodeString(body.obj, NameKey(res))
             p == DecodeUint(body.obj, PriceKey(res))
         IN  [err |-> FALSE, rec |-> [ID |-> i.v, Name |-> n.v, Price |-> p.v]]

\* c.BindJSON into a Train / Plane / History: [err, rec].  The structs carry
\* no binding tag, so nothing is required of the decoded value.
BindJSON(res, body) ==
    IF ~body.wf THEN [err |-> TRUE, rec |-> ZeroRec]
    ELSE LET i == DecodeUint(body.obj, IdKey(res))
             n == DecodeString(body.obj, NameKey(res))
             p == DecodeUint(body.obj, PriceKey(res))
         IN  IF i.err \/ n.err \/ p.err THEN [err |-> TRUE, rec |-> ZeroRec]
             ELSE [err |-> FALSE, rec |-> [ID |-> i.v, Name |-> n.v, Price |-> p.v]]

\* Response bodies.
Body(kind, text, list) == [kind |-> kind, text |-> text, list |-> list]
EmptyBody == Body("empty", "", <<>>)
Message(m) == Body("message", m, <<>>)
ErrorBody(m) == Body("error", m, <<>>)

\* c.JSON of a slice: a slice nothing was appended to is nil and encodes as
\* null, any other as an array.
JsonSlice(list) == IF list = <<>> THEN Body("null", "", <<>>) ELSE Body("array", "", list)

Resp(status, body, headers) == [status |-> status, body |-> body, headers |-> headers]
NoResp == Resp(0, EmptyBody, {})

\* handleDBError
handleDBError == [status |-> 500, body |-> ErrorBody("Database error")]

CreatedMessage(res) ==
    CASE res = "trains" -> "Train created successfully"
      [] res = "planes" -> "Plane created successfully"
      [] OTHER -> "Added to history created successfully"

DeletedMessage(res) ==
    CASE res = "trains" -> "Train deleted successfully"
      [] res = "planes" -> "Plane deleted successfully"
      [] OTHER -> "History deleted successfully"

\* ----------------------------------------------------------------- router
\* The route table of main: the handler of a method and path, "noRoute" when
\* none is registered.
Route(method, path) ==
    IF method = "GET" /\ path = <<>> THEN "homePage"
    ELSE IF method = "GET" /\ Len(path) = 1 /\ path[1] \in Resources THEN "getAll"
    ELSE IF method = "POST" /\ Len(path) = 2 /\ path[1] \in Resources /\ path[2] = "add" THEN "insert"
    ELSE IF method = "DELETE" /\ Len(path) = 2 /\ path[1] \in Resources THEN "delete"
    ELSE "noRoute"

\* corsMiddleware: the four headers are set on every response; an OPTIONS
\* request is answered 200 there and the chain aborted.
\* Faulty variant: the middleware sets the headers and always calls c.Next.
corsMiddlewareWithoutAbort(method) ==
    [headers |-> {"Access-Control-Allow-Origin", "Access-Control-Allow-Methods",
                  "Access-Control-Allow-Headers", "Access-Control-Allow-Credentials"},
     aborted |-> FALSE, status |-> 200]

CorsHeaders ==
    {"Access-Control-Allow-Origin", "Access-Control-Allow-Methods",
     "Access-Control-Allow-Headers", "Access-Control-Allow-Credentials"}

corsMiddleware(method) == [headers |-> CorsHeaders, aborted |-> method = "OPTIONS", status |-> 200]

\* ------------------------------------------------------------------ state
NoReq == [method |-> "", path |-> <<>>, body |-> NoBody]
IdleCtx == [phase |-> "idle", handler |-> "", req |-> NoReq, resp |-> NoResp, dberr |-> "none"]

\* gin takes a context back into its pool once its response is written: an
\* answered context is seen for one state, then free again.
Recycle(cs) == [w \in Workers |-> IF cs[w].phase = "done" THEN IdleCtx ELSE cs[w]]

\* A request's context once it is answered.
Done(c, status, body, dberr) ==
    [c EXCEPT !.phase = "done", !.resp = Resp(status, body, c.resp.headers), !.dberr = dberr]

Init ==
    /\ pc = "init"
    /\ db = [r \in Resources |-> NoTable]
    /\ ctx = [w \in Workers |-> IdleCtx]
    /\ nreq = 0
    /\ created = <<>>
    /\ attempts = <<>>
    /\ startDb = [r \in Resources |-> NoTable]
    /\ startReq = 0
    /\ acked = <<>>

\* ---------------------------------------------------------------- startup
\* init(): godotenv.Load, fatal on failure.
init ==
    /\ pc = "init"
    /\ \E fault \in BOOLEAN : pc' = IF fault THEN "halted" ELSE "open"
    /\ UNCHANGED <<db, ctx, nreq, created, attempts, startDb, startReq, acked>>

\* main: sql.Open, fatal on failure.
mainOpen ==
    /\ pc = "open"
    /\ \E fault \in BOOLEAN : pc' = IF fault THEN "halted" ELSE "createTrains"
    /\ UNCHANGED <<db, ctx, nreq, created, attempts, startDb, startReq, acked>>

\* main: one create-table call, fatal on failure.
MainCreate(at, res, r, next) ==
    /\ pc = at
    /\ attempts' = Append(attempts, res)
    /\ db' = [db EXCEPT ![res] = r.t]
    /\ created' = IF r.err THEN created ELSE Append(created, res)
    /\ pc' = IF r.err THEN "halted" ELSE next
    /\ UNCHANGED <<ctx, nreq, startDb, startReq, acked>>

mainCreateTrains ==
    \E fault \in BOOLEAN : MainCreate("createTrains", "trains", createTrainsTable(db, fault), "createPlanes")

mainCreatePlanes ==
    \E fault \in BOOLEAN : MainCreate("createPlanes", "planes", createPlanesTable(db, fault), "createHistory")

mainCreateHistory ==
    \E fault \in BOOLEAN : MainCreate("createHistory", "history", createHistoryTable(db, fault), "run")

\* main: the routes are registered and router.Run listens; when it cannot,
\* main returns.
mainRun ==
    /\ pc = "run"
    /\ \E fault \in BOOLEAN :
         /\ pc' = IF fault THEN "halted" ELSE "serving"
         /\ startDb' = IF fault THEN startDb ELSE [r \in Resources |-> NoTable]
         /\ startReq' = IF fault THEN startReq ELSE 0
    /\ UNCHANGED <<db, ctx, nreq, created, attempts, acked>>

\* The process is started again (after it halted, or was stopped while
\* serving); the database keeps what it holds.
Restart ==
    /\ pc \in {"serving", "halted"}
    /\ pc' = "init"
    /\ ctx' = [w \in Workers |-> IdleCtx]
    /\ created' = <<>>
    /\ attempts' = <<>>
    /\ startDb' = db
    /\ startReq' = nreq
    /\ UNCHANGED <<db, nreq, acked>>

\* --------------------------------------------------------------- requests
\* A request arrives on a free worker: the middleware runs, then the router
\* picks the handler.
ServeHTTP(w) ==
    /\ pc = "serving"
    /\ ctx[w].phase # "handler"
    /\ \A v \in Workers : Before(v, w) => ctx[v].phase = "handler"
    /\ nreq < MaxRequests
    /\ nreq' = nreq + 1
    /\ \E rq \in Requests :
         LET m == corsMiddleware(rq.method)
             h == Route(rq.method, rq.path)
             c == [phase |-> "handler", handler |-> h, req |-> rq,
                   resp |-> Resp(0, EmptyBody, m.headers), dberr |-> "none"]
         IN  ctx' = [Recycle(ctx) EXCEPT ![w] =
                 IF m.aborted THEN Done([c EXCEPT !.handler = "corsMiddleware"], m.status, EmptyBody, "none")
                 ELSE IF h = "noRoute" THEN Done(c, 404, Body("text", "404 page not found", <<>>), "none")
                 ELSE c]
    /\ UNCHANGED <<pc, db, created, attempts, startDb, startReq, acked>>

InHandler(w, h, res) ==
    /\ pc = "serving"
    /\ ctx[w].phase = "handler"
    /\ ctx[w].handler = h
    /\ (res # "" => ctx[w].req.path[1] = res)

homePage(w) ==
    /\ InHandler(w, "homePage", "")
    /\ ctx' = [Recycle(ctx) EXCEPT ![w] = Done(@, 200, Body("text", "Welcome to my application!", <<>>), "none")]
    /\ UNCHANGED <<pc, db, nreq, created, attempts, startDb, startReq, acked>>

\* insertTrain / insertPlane / insertHistory
Insert(w, res) ==
    /\ InHandler(w, "insert", res)
    /\ LET b == BindJSON(res, ctx[w].req.body)
       IN  IF b.err
           THEN /\ ctx' = [Recycle(ctx) EXCEPT ![w] = Done(@, 400, ErrorBody("bind"), "none")]
                /\ UNCHANGED <<db, acked>>
           ELSE /\ db[res].last < MaxId
                /\ \E fault \in BOOLEAN, drew \in BOOLEAN :
                     LET r == InsertRow(db[res], b.rec, fault, drew)
                     IN  /\ db' = [db EXCEPT ![res] = r.t]
                         /\ IF r.err
                            THEN /\ ctx' = [Recycle(ctx) EXCEPT ![w] =
                                        Done(@, handleDBError.status, handleDBError.body,
                                             IF fault THEN "fault" ELSE "stmt")]
                                 /\ UNCHANGED acked
                            ELSE /\ ctx' = [Recycle(ctx) EXCEPT ![w] =
                                        Done(@, 201, Message(CreatedMessage(res)), "none")]
                                 /\ acked' = Append(acked,
                                        [res |-> res, id |-> CHOOSE i \in Ids(r.t) \ Ids(db[res]) : TRUE,
                                         name |-> b.rec.Name, price |-> b.rec.Price,
                                         before |-> Ids(db[res]), last |-> db[res].last,
                                         t1 |-> nreq])
    /\ UNCHANGED <<pc, nreq, created, attempts, startDb, startReq>>

insertTrain(w) == Insert(w, "trains")
insertPlane(w) == Insert(w, "planes")
insertHistory(w) == Insert(w, "history")

\* getAllTrains / getAllPlanes / getHistory
GetAll(w, res) ==
    /\ InHandler(w, "getAll", res)
    /\ \E o \in ListOutcomes(db[res]) :
         ctx' = [Recycle(ctx) EXCEPT ![w] =
             IF o.dberr \in {"query", "scan"}
             THEN Done(@, handleDBError.status, handleDBError.body, o.dberr)
             ELSE Done(@, 200, JsonSlice(o.list), o.dberr)]
    /\ UNCHANGED <<pc, db, nreq, created, attempts, startDb, startReq, acked>>

getAllTrains(w) == GetAll(w, "trains")
getAllPlanes(w) == GetAll(w, "planes")
getHistory(w) == GetAll(w, "history")

\* deleteTrain / deletePlane / deleteHistory
Delete(w, res) ==
    /\ InHandler(w, "delete", res)
    /\ \E fault \in BOOLEAN :
         LET r == DeleteWhere(db[res], res, DeleteColumn(res), ctx[w].req.path[2], fault)
         IN  /\ db' = [db EXCEPT ![res] = r.t]
             /\ IF r.err
                THEN /\ ctx' = [Recycle(ctx) EXCEPT ![w] =
                            Done(@, handleDBError.status, handleDBError.body,
                                 IF fault THEN "fault" ELSE "stmt")]
                     /\ UNCHANGED acked
                ELSE /\ ctx' = [Recycle(ctx) EXCEPT ![w] = Done(@, 200, Message(DeletedMessage(res)), "none")]
                     /\ acked' = SelectSeq(acked,
                            LAMBDA a : ~(a.res = res /\ a.id = Atoi(ctx[w].req.path[2])))
    /\ UNCHANGED <<pc, nreq, created, attempts, startDb, startReq>>

deleteTrain(w) == Delete(w, "trains")
deletePlane(w) == Delete(w, "planes")
deleteHistory(w) == Delete(w, "history")

Next ==
    \/ init
    \/ mainOpen
    \/ mainCreateTrains
    \/ mainCreatePlanes
    \/ mainCreateHistory
    \/ mainRun
    \/ Restart
    \/ \E w \in Workers : ServeHTTP(w)
    \/ \E w \in Workers : homePage(w)
    \/ \E w \in Workers : insertTrain(w)
    \/ \E w \in Workers : insertPlane(w)
    \/ \E w \in Workers : insertHistory(w)
    \/ \E w \in Workers : getAllTrains(w)
    \/ \E w \in Workers : getAllPlanes(w)
    \/ \E w \in Workers : getHistory(w)
    \/ \E w \in Workers : deleteTrain(w)
    \/ \E w \in Workers : deletePlane(w)
    \/ \E w \in Workers : deleteHistory(w)

Spec == Init /\ [][Next]_vars

\* ----------------------------------------------------------------- claims
ResOf(c) == c.req.path[1]

\* Worker w's request is answered by this step.
Answers(w) == ctx'[w].phase = "done" /\ (ctx[w].phase = "handler" \/ nreq' = nreq + 1)

\* The answer of handler h that worker w holds.
Answered(w, h) == ctx[w].phase = "done" /\ ctx[w].handler = h

Rows(d) == [r \in Resources |-> d[r].rows]

C2_EmptyTableListsEmptyArray ==
    \A w \in Workers :
        (Answered(w, "getAll") /\ ctx[w].dberr = "none" /\ db[ResOf(ctx[w])].rows = {}) =>
            /\ ctx[w].resp.status = 200
            /\ ctx[w].resp.body = Body("array", "", <<>>)

\* C3: a delete request naming an identifier no row of the table has, storage
\* not failing, answers 200 with the deletion message and leaves the rows of
\* the table as they were.
C3_DeleteOfMissingIdSucceeds ==
    [][\A w \in Workers :
        (/\ Answers(w)
         /\ ctx'[w].handler = "delete"
         /\ ctx'[w].dberr # "fault"
         /\ Atoi(ctx'[w].req.path[2]) # NotInt
         /\ Atoi(ctx'[w].req.path[2]) \notin Ids(db[ResOf(ctx'[w])])) =>
            /\ ctx'[w].resp.status = 200
            /\ ctx'[w].resp.body = Message(DeletedMessage(ResOf(ctx'[w])))
            /\ Rows(db') = Rows(db)]_vars

\* C4: an insert request whose body is malformed JSON answers 400 and executes
\* no INSERT: the three tables are after it what they were before.
C4_MalformedBodyIsRejected ==
    [][\A w \in Workers :
        (Answers(w) /\ ctx'[w].handler = "insert" /\ ~ctx'[w].req.body.wf) =>
            /\ ctx'[w].resp.status = 400
            /\ db' = db]_vars

C4_Witness ==
    \E w \in Workers :
        /\ Answered(w, "insert")
        /\ ~ctx[w].req.body.wf
        /\ ctx[w].resp.status = 400

\* C5: an insert request whose body is well-formed JSON without the name or
\* without the price answers 400 and inserts no row.
C5_MissingFieldIsRejected ==
    [][\A w \in Workers :
        (/\ Answers(w)
         /\ ctx'[w].handler = "insert"
         /\ ctx'[w].dberr # "fault"
         /\ ctx'[w].req.body.wf
         /\ \/ NameKey(ResOf(ctx'[w])) \notin DOMAIN ctx'[w].req.body.obj
            \/ PriceKey(ResOf(ctx'[w])) \notin DOMAIN ctx'[w].req.body.obj) =>
            /\ ctx'[w].resp.status = 400
            /\ Rows(db') = Rows(db)]_vars

\* C6: an OPTIONS request, whatever its path, is answered by the middleware
\* with 200, an empty body and the four Access-Control-Allow headers; it
\* reaches no handler and storage is unchanged.
C6_OptionsIsAnsweredByMiddleware ==
    [][\A w \in Workers :
        (ctx'[w].req.method = "OPTIONS") =>
            /\ ctx'[w].phase = "done"
            /\ ctx'[w].handler = "corsMiddleware"
            /\ ctx'[w].resp = Resp(200, EmptyBody, CorsHeaders)
            /\ db' = db]_vars

C6_Witness ==
    \E w \in Workers :
        /\ Answered(w, "corsMiddleware")
        /\ ctx[w].req.method = "OPTIONS"
        /\ ctx[w].req.path = <<"trains">>
        /\ ctx[w].resp.status = 200

\* C7: a request during which a storage call failed (the query or exec, the
\* scan of a row, or the advance of the row iteration) answers 500 with the
\* body {"error": "Database error"}, and leaves the rows of the tables as
\* they were.
C7_StorageFailureAnswers500 ==
    [][\A w \in Workers :
        (Answers(w) /\ ctx'[w].dberr # "none") =>
            /\ ctx'[w].resp.status = 500
            /\ ctx'[w].resp.body = ErrorBody("Database error")
            /\ Rows(db') = Rows(db)]_vars

\* C8: no two rows of a table share an identifier; every identifier is a
\* value the table's sequence handed out, and the identifier of an inserted
\* row is the sequence's next value whatever the body supplied; the inserts
\* answered 201 on one table have distinct identifiers.
C8_IdentifiersUniqueAndStorageAssigned ==
    /\ \A res \in Resources :
         /\ \A r1, r2 \in db[res].rows : r1.id = r2.id => r1 = r2
         /\ Ids(db[res]) \subseteq 1..db[res].last
    /\ \A i \in 1..Len(acked) :
         /\ acked[i].id = acked[i].last + 1
         /\ acked[i].id \in Ids(db[acked[i].res])
    /\ \A i, j \in 1..Len(acked) :
         (i # j /\ acked[i].res = acked[j].res) => acked[i].id # acked[j].id

\* Two inserts on one table, both answered 201 with no request arriving
\* between the two answers: the second was in flight when the first was
\* answered.
C8_Witness ==
    \E i, j \in 1..Len(acked) :
        /\ i < j
        /\ acked[i].res = acked[j].res
        /\ acked[i].t1 = acked[j].t1
        /\ acked[i].id # acked[j].id
        /\ {acked[i].id, acked[j].id} \subseteq Ids(db[acked[i].res])

StartupOrder == <<"trains", "planes", "history">>
IsPrefix(s, t) == Len(s) =< Len(t) /\ \A i \in 1..Len(s) : s[i] = t[i]

\* C9: requests are served only once the three create statements have
\* succeeded, in the order trains, planes, history; no create statement is
\* tried twice; a process that halted has served no request; and until the
\* server runs, a table that existed when the process started is as it was.
C9_StartupOrderedAndFailFast ==
    /\ IsPrefix(attempts, StartupOrder)
    /\ IsPrefix(created, attempts)
    /\ Len(attempts) =< Len(created) + 1
    /\ (Len(attempts) > Len(created)) => pc = "halted"
    /\ (pc = "serving" \/ \E w \in Workers : ctx[w].phase # "idle") =>
           (pc = "serving" /\ created = StartupOrder)
    /\ pc # "serving" =>
           /\ nreq = startReq
           /\ \A res \in Resources : startDb[res].exists => db[res] = startDb[res]

\* The three create statements have run on tables that held rows.
C9_Witness ==
    /\ pc = "run"
    /\ created = StartupOrder
    /\ \E res \in Resources : startDb[res].rows # {} /\ db[res].rows = startDb[res].rows

\* C10: a delete request naming the identifier of a row of the table, storage
\* not failing, answers 200 and removes that row and no other: the table
\* keeps its other rows and the other two tables keep theirs.
C10_DeleteRemovesExactlyThatRow ==
    [][\A w \in Workers :
        (/\ Answers(w)
         /\ ctx'[w].handler = "delete"
         /\ ctx'[w].dberr # "fault"
         /\ Atoi(ctx'[w].req.path[2]) \in Ids(db[ResOf(ctx'[w])])) =>
            /\ ctx'[w].resp.status = 200
            /\ Rows(db') = [Rows(db) EXCEPT ![ResOf(ctx'[w])] =
                   {r \in @ : r.id # Atoi(ctx'[w].req.path[2])}]]_vars

====
